---- MODULE Spec2Model ----
(***************************************************************************)
(* Stock and price synchronisation of a vendor spreadsheet ("ostatki")     *)
(* into two marketplaces: seller.py (Ozon) and market.py (Yandex Market).  *)
(*                                                                         *)
(* Python strings are sequences of one-character strings, so that str(),   *)
(* int() and the comparisons of the code are computed, not assumed.  The   *)
(* spreadsheet columns "Код", "Количество" and "Цена" are the record       *)
(* fields Kod, Kolichestvo and Tsena; a cell is a tagged Python value,     *)
(* [kind |-> "str", s |-> ...] or [kind |-> "int", n |-> ...].             *)
(***************************************************************************)
EXTENDS Integers, Sequences, FiniteSets, TLC

VARIABLES
    entry,           \* which program runs: "seller.main", "market.main" or "call"
    pc,              \* position of main
    campaign,        \* "OZON", or the Yandex campaign being processed: "FBS", "DBS"
    ostatki,         \* the rows of the vendor's spreadsheet on the vendor's site
    catalog,         \* the offer ids the marketplace lists, in listing order
    watch_remnants,  \* main's local: the downloaded rows
    offer_ids,       \* main's local: the working list of offer ids
    fetched,         \* history: offer_ids as get_offer_ids returned it
    stocks,          \* main's local: result of create_stocks
    prices,          \* main's local: result of create_prices
    batches,         \* main's local: list(divide(...)) being pushed
    calls,           \* marketplace API calls issued so far, in order
    coroutines,      \* coroutine objects created and never awaited
    reported,        \* what main's except clauses printed, "" if nothing
    call             \* a direct call of a pure function: its arguments and outcome

vars == <<entry, pc, campaign, ostatki, catalog, watch_remnants, offer_ids,
          fetched, stocks, prices, batches, calls, coroutines, reported, call>>

-----------------------------------------------------------------------------
(* Bounds of the model *)

MaxRemnants == 2

MaxOffers == 3

MaxList == 4

MaxChunk == 3

\* length of the price strings drawn from PriceChars
MaxPrice == 4

\* the most items the marketplace puts in one page of a listing
MaxPage == 2

\* the most offers the seller's catalog loses while get_offer_ids pages through it
MaxChanges == 1

\* size of a long listing: one more item than a batch of seller.main's update_stocks
LongListing == 101

-----------------------------------------------------------------------------
(* Python values and the built-ins the code applies to them *)

PyStr(s) == [kind |-> "str", s |-> s]

PyInt(n) == [kind |-> "int", n |-> n]

DigitChars == <<"0", "1", "2", "3", "4", "5", "6", "7", "8", "9">>

IsDigit(c) == \E i \in 1..10 : DigitChars[i] = c

DigitValue(c) == (CHOOSE i \in 1..10 : DigitChars[i] = c) - 1

RECURSIVE NatToStr(_)
NatToStr(n) ==
    IF n < 10 THEN <<DigitChars[n + 1]>>
    ELSE NatToStr(n \div 10) \o <<DigitChars[(n % 10) + 1]>>

\* str(v): a str is itself, an int is its decimal form
Str(v) ==
    IF v.kind = "str" THEN v.s
    ELSE IF v.n < 0 THEN <<"-">> \o NatToStr(0 - v.n)
    ELSE NatToStr(v.n)

RECURSIVE DigitsToNat(_)
DigitsToNat(s) ==
    IF s = <<>> THEN 0
    ELSE 10 * DigitsToNat(SubSeq(s, 1, Len(s) - 1)) + DigitValue(s[Len(s)])

RECURSIVE Strip(_)
Strip(s) ==
    IF s # <<>> /\ s[1] = " " THEN Strip(Tail(s))
    ELSE IF s # <<>> /\ s[Len(s)] = " " THEN Strip(SubSeq(s, 1, Len(s) - 1))
    ELSE s

AllDigits(s) == s # <<>> /\ \A i \in 1..Len(s) : IsDigit(s[i])

\* int(v): [ok |-> TRUE, n |-> value], or [ok |-> FALSE] for ValueError
IntParse(s) ==
    LET t == Strip(s)
        signed == t # <<>> /\ t[1] \in {"-", "+"}
        body == IF signed THEN Tail(t) ELSE t
    IN  IF AllDigits(body)
        THEN [ok |-> TRUE,
              n |-> IF signed /\ t[1] = "-" THEN 0 - DigitsToNat(body)
                    ELSE DigitsToNat(body)]
        ELSE [ok |-> FALSE, n |-> 0]

Int_(v) == IF v.kind = "int" THEN [ok |-> TRUE, n |-> v.n] ELSE IntParse(v.s)

\* x in lst, for a Python list
In(x, lst) == \E i \in 1..Len(lst) : lst[i] = x

\* a faulty remove, which drops nothing
RemoveNothing(lst, x) == lst

\* lst.remove(x): drops the first occurrence of x
Remove(lst, x) ==
    LET k == CHOOSE i \in 1..Len(lst) : lst[i] = x /\ \A j \in 1..(i - 1) : lst[j] # x
    IN  SubSeq(lst, 1, k - 1) \o SubSeq(lst, k + 1, Len(lst))

-----------------------------------------------------------------------------
(* seller.create_stocks and market.create_stocks *)

\* the rules with the elif on "1" left out, a faulty variant of StockOf
StockOfWithoutOne(watch) ==
    LET count == Str(watch.Kolichestvo)
    IN  IF count = <<">", "1", "0">> THEN [ok |-> TRUE, n |-> 100]
        ELSE Int_(watch.Kolichestvo)

\* the if / elif / else on count
StockOf(watch) ==
    LET count == Str(watch.Kolichestvo)
    IN  IF count = <<">", "1", "0">> THEN [ok |-> TRUE, n |-> 100]
        ELSE IF count = <<"1">> THEN [ok |-> TRUE, n |-> 0]
        ELSE Int_(watch.Kolichestvo)

OzonStock(offer_id, stock) == [offer_id |-> offer_id, stock |-> stock]

YandexStock(sku, stock, warehouse_id, date) ==
    [sku |-> sku, warehouseId |-> warehouse_id,
     items |-> <<[count |-> stock, type |-> "FIT", updatedAt |-> date]>>]

\* The update appended for id: seller.py's dict, or market.py's for a
\* shape [warehouse_id, date]
StockItem(shape, id, n) ==
    IF shape.platform = "ozon" THEN OzonStock(id, n)
    ELSE YandexStock(id, n, shape.warehouse_id, shape.date)

\* The first loop: st is [raised, stocks, offer_ids] after the rows before rows[1]
RECURSIVE MatchLoop(_, _, _)
MatchLoop(rows, st, shape) ==
    IF rows = <<>> \/ st.raised # "" THEN st
    ELSE LET watch == rows[1]
             id == Str(watch.Kod)
         IN  IF In(id, st.offer_ids)
             THEN LET q == StockOf(watch)
                  IN  IF q.ok
                      THEN MatchLoop(Tail(rows),
                               [raised |-> "",
                                stocks |-> Append(st.stocks, StockItem(shape, id, q.n)),
                                offer_ids |-> Remove(st.offer_ids, id)],
                               shape)
                      ELSE [st EXCEPT !.raised = "ValueError"]
             ELSE MatchLoop(Tail(rows), st, shape)

\* a faulty second loop, which runs over offer_ids backwards
ZeroLoopBackwards(st, shape) ==
    IF st.raised # "" THEN st
    ELSE [st EXCEPT !.stocks =
             st.stocks \o [i \in 1..Len(st.offer_ids) |->
                              StockItem(shape, st.offer_ids[Len(st.offer_ids) + 1 - i], 0)]]

\* The second loop, after the first: a zero for every id left in offer_ids
ZeroLoop(st, shape) ==
    IF st.raised # "" THEN st
    ELSE [st EXCEPT !.stocks =
             st.stocks \o [i \in 1..Len(st.offer_ids) |->
                              StockItem(shape, st.offer_ids[i], 0)]]

\* The whole function: [raised, stocks, offer_ids], offer_ids being the
\* caller's list as the function leaves it
seller_create_stocks(rows, ids) ==
    LET shape == [platform |-> "ozon"]
    IN  ZeroLoop(MatchLoop(rows, [raised |-> "", stocks |-> <<>>, offer_ids |-> ids],
                           shape), shape)

market_create_stocks(rows, ids, warehouse_id, date) ==
    LET shape == [platform |-> "yandex", warehouse_id |-> warehouse_id, date |-> date]
    IN  ZeroLoop(MatchLoop(rows, [raised |-> "", stocks |-> <<>>, offer_ids |-> ids],
                           shape), shape)

-----------------------------------------------------------------------------
(* seller.price_conversion, seller.create_prices and market.create_prices *)

\* a faulty split, which keeps the whole string
BeforeDotKeepsAll(s) == s

\* price.split(".")[0]: what precedes the first "."
RECURSIVE BeforeDot(_)
BeforeDot(s) ==
    IF s = <<>> \/ s[1] = "." THEN <<>>
    ELSE <<s[1]>> \o BeforeDot(Tail(s))

\* re.sub("[^0-9]", "", s): the digit characters of s, in order
OnlyDigits(s) == SelectSeq(s, IsDigit)

\* [raised, value]: an AttributeError when price is no str
price_conversion(price) ==
    IF price.kind # "str" THEN [raised |-> "AttributeError", value |-> <<>>]
    ELSE [raised |-> "", value |-> OnlyDigits(BeforeDot(price.s))]

OzonPrice(offer_id, price) ==
    [auto_action_enabled |-> "UNKNOWN", currency_code |-> "RUB",
     offer_id |-> offer_id, old_price |-> "0", price |-> price]

YandexPrice(id, value) ==
    [id |-> id, price |-> [value |-> value, currencyId |-> "RUR"]]

\* [raised, prices] after the rows of rows, from st; offer_ids is only read
RECURSIVE SellerPriceLoop(_, _, _)
SellerPriceLoop(rows, ids, st) ==
    IF rows = <<>> \/ st.raised # "" THEN st
    ELSE LET watch == rows[1]
             id == Str(watch.Kod)
             p == price_conversion(watch.Tsena)
         IN  IF ~In(id, ids) THEN SellerPriceLoop(Tail(rows), ids, st)
             ELSE IF p.raised # "" THEN [st EXCEPT !.raised = p.raised]
             ELSE SellerPriceLoop(Tail(rows), ids,
                      [st EXCEPT !.prices = Append(@, OzonPrice(id, p.value))])

seller_create_prices(rows, ids) ==
    SellerPriceLoop(rows, ids, [raised |-> "", prices |-> <<>>])

RECURSIVE MarketPriceLoop(_, _, _)
MarketPriceLoop(rows, ids, st) ==
    IF rows = <<>> \/ st.raised # "" THEN st
    ELSE LET watch == rows[1]
             id == Str(watch.Kod)
             p == price_conversion(watch.Tsena)
             v == IntParse(p.value)
         IN  IF ~In(id, ids) THEN MarketPriceLoop(Tail(rows), ids, st)
             ELSE IF p.raised # "" THEN [st EXCEPT !.raised = p.raised]
             ELSE IF ~v.ok THEN [st EXCEPT !.raised = "ValueError"]
             ELSE MarketPriceLoop(Tail(rows), ids,
                      [st EXCEPT !.prices = Append(@, YandexPrice(id, v.n))])

market_create_prices(rows, ids) ==
    MarketPriceLoop(rows, ids, [raised |-> "", prices |-> <<>>])

-----------------------------------------------------------------------------
(* seller.divide *)

Min(a, b) == IF a < b THEN a ELSE b

\* range(start, stop, step) as the list of its values, for step # 0
RECURSIVE Range(_, _, _)
Range(start, stop, step) ==
    IF (step > 0 /\ start >= stop) \/ (step < 0 /\ start <= stop) THEN <<>>
    ELSE <<start>> \o Range(start + step, stop, step)

\* a faulty slice, which stops one item early
SliceShort(lst, i, j) == SubSeq(lst, i + 1, Min(j, Len(lst)) - 1)

\* lst[i : j] for 0 <= i, with Python's clipping of j
Slice(lst, i, j) == SubSeq(lst, i + 1, Min(j, Len(lst)))

\* list(divide(lst, n)): [raised, chunks, lst], lst being the caller's list as the
\* generator leaves it (it only reads it); range() raises ValueError on step 0
divide(lst, n) ==
    IF n = 0 THEN [raised |-> "ValueError", chunks |-> <<>>, lst |-> lst]
    ELSE LET at == Range(0, Len(lst), n)
         IN  [raised |-> "",
              chunks |-> [k \in 1..Len(at) |-> Slice(lst, at[k], at[k] + n)],
              lst |-> lst]

\* the chunks main iterates over: a ValueError cannot arise, the sizes being literals
Chunks(lst, n) == divide(lst, n).chunks

-----------------------------------------------------------------------------
(* The inputs: spreadsheet rows and marketplace catalogs *)

Row(kod, kolichestvo, tsena) == [Kod |-> kod, Kolichestvo |-> kolichestvo, Tsena |-> tsena]

\* "5'990.00 rub." and "3'000.00 rub.": r, u, b stand for the Cyrillic letters
Tsena5990 == PyStr(<<"5", "'", "9", "9", "0", ".", "0", "0", " ", "r", "u", "b", ".">>)

Tsena3000 == PyStr(<<"3", "'", "0", "0", "0", ".", "0", "0", " ", "r", "u", "b", ".">>)

Tsena100 == PyStr(<<"1", "0", "0", ".", "5", "0">>)

Rows ==
    { Row(PyStr(<<"A">>), PyStr(<<">", "1", "0">>), Tsena5990),
      Row(PyStr(<<"B">>), PyStr(<<"1">>), Tsena100),
      Row(PyStr(<<"A">>), PyStr(<<"7">>), Tsena3000),
      Row(PyInt(7), PyInt(1), Tsena100),
      Row(PyStr(<<"B">>), PyStr(<<"a", "b", "c">>), PyStr(<<>>)),
      Row(PyStr(<<"C">>), PyInt(-3), Tsena100) }

SeqsUpTo(S, n) == UNION { [1..k -> S] : k \in 0..n }

NoDuplicates(lst) == \A i, j \in 1..Len(lst) : lst[i] = lst[j] => i = j

RowLists == SeqsUpTo(Rows, MaxRemnants)

OfferIds == { <<"A">>, <<"B">>, <<"C">> }

\* a listing of n offers, whose ids are "1", "2", ...
Listing(n) == [i \in 1..n |-> NatToStr(i)]

\* an offer id is the marketplace's key of a listing: a listing returns none twice
Catalogs ==
    { c \in SeqsUpTo(OfferIds, MaxOffers) : NoDuplicates(c) } \cup { Listing(LongListing) }

Dates == { "2023-11-25T12:30:45Z", "2023-11-26T00:00:00Z" }

WarehouseOf(c) == IF c = "FBS" THEN "WAREHOUSE_FBS_ID" ELSE "WAREHOUSE_DBS_ID"

-----------------------------------------------------------------------------
(* seller.main and market.main *)

\* what a marketplace or vendor HTTP call does: returns, or raises one of these
Outcomes == { "ok", "ReadTimeout", "ConnectionError", "HTTPError" }

\* the except clauses of main, in order: what is printed for an exception
Handler(exc) ==
    IF exc = "ReadTimeout" THEN "timeout"
    ELSE IF exc = "ConnectionError" THEN "connection"
    ELSE "ERROR_2"

ApiCall(api, payload, outcome) ==
    [api |-> api, campaign |-> campaign, payload |-> payload, outcome |-> outcome]

\* a faulty handling: an except clause that prints and lets main go on where it was
CaughtAndGoesOn(exc) ==
    /\ reported' = Handler(exc)
    /\ pc' = pc

\* an exception leaves the try block: the matching except clause prints, main ends
Caught(exc) ==
    /\ reported' = Handler(exc)
    /\ pc' = "CAUGHT"

\* a call about to be made: the function and its arguments
Pending(fn, args) == [fn |-> fn, args |-> args, returned |-> FALSE, out |-> <<>>]

Init ==
    /\ entry \in { "seller.main", "market.main" }
    /\ pc = IF entry = "seller.main" THEN "FETCH_OFFER_IDS" ELSE "DOWNLOAD_STOCK"
    /\ campaign = IF entry = "seller.main" THEN "OZON" ELSE "FBS"
    /\ ostatki \in RowLists
    /\ catalog \in Catalogs
    /\ watch_remnants = <<>>
    /\ offer_ids = <<>>
    /\ fetched = <<>>
    /\ stocks = <<>>
    /\ prices = <<>>
    /\ batches = <<>>
    /\ calls = <<>>
    /\ coroutines = 0
    /\ reported = ""
    /\ call = Pending("none", <<>>)

\* offer_ids = get_offer_ids(client_id, seller_token): the pages of the listing are
\* requested in this one step, and a page that fails raises out of get_offer_ids
SellerGetOfferIds ==
    /\ entry = "seller.main" /\ pc = "FETCH_OFFER_IDS"
    /\ \E outcome \in Outcomes :
          /\ calls' = Append(calls, ApiCall("get_product_list", <<>>, outcome))
          /\ IF outcome = "ok"
             THEN /\ offer_ids' = catalog
                  /\ fetched' = catalog
                  /\ pc' = "DOWNLOAD_STOCK"
                  /\ UNCHANGED reported
             ELSE /\ Caught(outcome)
                  /\ UNCHANGED <<offer_ids, fetched>>
    /\ UNCHANGED <<entry, campaign, ostatki, catalog, watch_remnants, stocks, prices,
                   batches, coroutines, call>>

\* watch_remnants = download_stock(), inside the try block
SellerDownloadStock ==
    /\ entry = "seller.main" /\ pc = "DOWNLOAD_STOCK"
    /\ \E outcome \in Outcomes :
          IF outcome = "ok"
          THEN /\ watch_remnants' = ostatki
               /\ pc' = "RECONCILE_STOCK"
               /\ UNCHANGED reported
          ELSE /\ Caught(outcome)
               /\ UNCHANGED watch_remnants
    /\ UNCHANGED <<entry, campaign, ostatki, catalog, offer_ids, fetched, stocks, prices,
                   batches, calls, coroutines, call>>

\* stocks = create_stocks(watch_remnants, offer_ids), then list(divide(stocks, 100))
SellerCreateStocks ==
    /\ entry = "seller.main" /\ pc = "RECONCILE_STOCK"
    /\ LET r == seller_create_stocks(watch_remnants, offer_ids)
       IN  /\ offer_ids' = r.offer_ids
           /\ IF r.raised # ""
              THEN /\ Caught(r.raised)
                   /\ UNCHANGED <<stocks, batches>>
              ELSE /\ stocks' = r.stocks
                   /\ batches' = Chunks(r.stocks, 100)
                   /\ pc' = IF batches' = <<>> THEN "RECONCILE_PRICE"
                            ELSE "PUSH_STOCK_BATCHES"
                   /\ UNCHANGED reported
    /\ UNCHANGED <<entry, campaign, ostatki, catalog, watch_remnants, fetched, prices,
                   calls, coroutines, call>>

\* one turn of either for loop of seller.main: update_stocks(some_stock, ...) or
\* update_price(some_price, ...)
SellerPushBatch ==
    /\ entry = "seller.main" /\ pc \in { "PUSH_STOCK_BATCHES", "PUSH_PRICE_BATCHES" }
    /\ \E outcome \in Outcomes :
          /\ calls' = Append(calls,
                 ApiCall(IF pc = "PUSH_STOCK_BATCHES" THEN "update_stocks"
                         ELSE "update_price", Head(batches), outcome))
          /\ IF outcome = "ok"
             THEN /\ batches' = Tail(batches)
                  /\ pc' = IF batches' # <<>> THEN pc
                           ELSE IF pc = "PUSH_STOCK_BATCHES" THEN "RECONCILE_PRICE"
                           ELSE "DONE"
                  /\ UNCHANGED reported
             ELSE /\ Caught(outcome)
                  /\ UNCHANGED batches
    /\ UNCHANGED <<entry, campaign, ostatki, catalog, watch_remnants, offer_ids, fetched,
                   stocks, prices, coroutines, call>>

\* prices = create_prices(watch_remnants, offer_ids), then list(divide(prices, 900)):
\* offer_ids is the list create_stocks has removed the matched ids from
SellerCreatePrices ==
    /\ entry = "seller.main" /\ pc = "RECONCILE_PRICE"
    /\ LET r == seller_create_prices(watch_remnants, offer_ids)
       IN  IF r.raised # ""
           THEN /\ Caught(r.raised)
                /\ UNCHANGED <<prices, batches>>
           ELSE /\ prices' = r.prices
                /\ batches' = Chunks(r.prices, 900)
                /\ pc' = IF batches' = <<>> THEN "DONE" ELSE "PUSH_PRICE_BATCHES"
                /\ UNCHANGED reported
    /\ UNCHANGED <<entry, campaign, ostatki, catalog, watch_remnants, offer_ids, fetched,
                   stocks, calls, coroutines, call>>

\* watch_remnants = download_stock(), before market.main's try block: an exception
\* here is caught by nothing
MarketDownloadStock ==
    /\ entry = "market.main" /\ pc = "DOWNLOAD_STOCK"
    /\ \E outcome \in Outcomes :
          IF outcome = "ok"
          THEN /\ watch_remnants' = ostatki
               /\ pc' = "FETCH_OFFER_IDS"
          ELSE /\ pc' = "CRASHED"
               /\ UNCHANGED watch_remnants
    /\ UNCHANGED <<entry, campaign, ostatki, catalog, offer_ids, fetched, stocks, prices,
                   batches, calls, coroutines, reported, call>>

\* offer_ids = get_offer_ids(campaign_fbs_id, ...), and the same for DBS
MarketGetOfferIds ==
    /\ entry = "market.main" /\ pc = "FETCH_OFFER_IDS"
    /\ \E outcome \in Outcomes :
          /\ calls' = Append(calls, ApiCall("get_product_list", <<>>, outcome))
          /\ IF outcome = "ok"
             THEN /\ offer_ids' = catalog
                  /\ fetched' = catalog
                  /\ pc' = "RECONCILE_STOCK"
                  /\ UNCHANGED reported
             ELSE /\ Caught(outcome)
                  /\ UNCHANGED <<offer_ids, fetched>>
    /\ UNCHANGED <<entry, campaign, ostatki, catalog, watch_remnants, stocks, prices,
                   batches, coroutines, call>>

\* stocks = create_stocks(watch_remnants, offer_ids, warehouse_..._id), then
\* list(divide(stocks, 2000)); date is utcnow() at the call
MarketCreateStocks ==
    /\ entry = "market.main" /\ pc = "RECONCILE_STOCK"
    /\ \E date \in Dates :
          LET r == market_create_stocks(watch_remnants, offer_ids,
                                        WarehouseOf(campaign), date)
          IN  /\ offer_ids' = r.offer_ids
              /\ IF r.raised # ""
                 THEN /\ Caught(r.raised)
                      /\ UNCHANGED <<stocks, batches>>
                 ELSE /\ stocks' = r.stocks
                      /\ batches' = Chunks(r.stocks, 2000)
                      /\ pc' = IF batches' = <<>> THEN "RECONCILE_PRICE"
                               ELSE "PUSH_STOCK_BATCHES"
                      /\ UNCHANGED reported
    /\ UNCHANGED <<entry, campaign, ostatki, catalog, watch_remnants, fetched, prices,
                   calls, coroutines, call>>

\* one turn of a for loop of market.main: update_stocks(some_stock, ...)
MarketUpdateStocks ==
    /\ entry = "market.main" /\ pc = "PUSH_STOCK_BATCHES"
    /\ \E outcome \in Outcomes :
          /\ calls' = Append(calls, ApiCall("update_stocks", Head(batches), outcome))
          /\ IF outcome = "ok"
             THEN /\ batches' = Tail(batches)
                  /\ pc' = IF batches' # <<>> THEN pc ELSE "RECONCILE_PRICE"
                  /\ UNCHANGED reported
             ELSE /\ Caught(outcome)
                  /\ UNCHANGED batches
    /\ UNCHANGED <<entry, campaign, ostatki, catalog, watch_remnants, offer_ids, fetched,
                   stocks, prices, coroutines, call>>

\* upload_prices(watch_remnants, campaign_..._id, market_token): upload_prices is
\* an async def and the call is not awaited, so it only builds a coroutine object;
\* none of the function's body runs
MarketUploadPrices ==
    /\ entry = "market.main" /\ pc = "RECONCILE_PRICE"
    /\ coroutines' = coroutines + 1
    /\ IF campaign = "FBS"
       THEN /\ campaign' = "DBS"
            /\ pc' = "FETCH_OFFER_IDS"
       ELSE /\ pc' = "DONE"
            /\ UNCHANGED campaign
    /\ UNCHANGED <<entry, ostatki, catalog, watch_remnants, offer_ids, fetched, stocks,
                   prices, batches, calls, reported, call>>

Next ==
    \/ SellerGetOfferIds
    \/ SellerDownloadStock
    \/ SellerCreateStocks
    \/ SellerPushBatch
    \/ SellerCreatePrices
    \/ MarketDownloadStock
    \/ MarketGetOfferIds
    \/ MarketCreateStocks
    \/ MarketUpdateStocks
    \/ MarketUploadPrices

Spec == Init /\ [][Next]_vars

-----------------------------------------------------------------------------
(* Direct calls of the pure functions, on any arguments *)

Lists == SeqsUpTo(1..2, MaxList)

\* price strings: the documented ones, and every short string of a digit, a zero,
\* a dot, a thousands separator and a space
PriceChars == { "5", "0", ".", "'", " " }

PriceStrings ==
    { Tsena5990, Tsena3000, Tsena100 } \cup { PyStr(s) : s \in SeqsUpTo(PriceChars, MaxPrice) }

Steps == (0 - MaxChunk)..MaxChunk

PendingCalls ==
    { Pending("seller.create_stocks", [watch_remnants |-> rows, offer_ids |-> ids]) :
        rows \in RowLists, ids \in Catalogs }
    \cup
    { Pending("market.create_stocks",
              [watch_remnants |-> rows, offer_ids |-> ids,
               warehouse_id |-> WarehouseOf("FBS"), date |-> date]) :
        rows \in RowLists, ids \in Catalogs, date \in Dates }
    \cup
    { Pending("seller.create_prices", [watch_remnants |-> rows, offer_ids |-> ids]) :
        rows \in RowLists, ids \in Catalogs }
    \cup
    { Pending("market.create_prices", [watch_remnants |-> rows, offer_ids |-> ids]) :
        rows \in RowLists, ids \in Catalogs }
    \cup
    { Pending("seller.divide", [lst |-> lst, n |-> n]) : lst \in Lists, n \in Steps }
    \cup
    { Pending("seller.price_conversion", [price |-> price]) : price \in PriceStrings }

FnInit ==
    /\ entry = "call"
    /\ pc = "DONE"
    /\ campaign = "OZON"
    /\ ostatki = <<>>
    /\ catalog = <<>>
    /\ watch_remnants = <<>>
    /\ offer_ids = <<>>
    /\ fetched = <<>>
    /\ stocks = <<>>
    /\ prices = <<>>
    /\ batches = <<>>
    /\ calls = <<>>
    /\ coroutines = 0
    /\ reported = ""
    /\ call \in PendingCalls

\* the call runs to its return or its exception: out is what it leaves
Return(out) ==
    /\ ~call.returned
    /\ call' = [call EXCEPT !.returned = TRUE, !.out = out]
    /\ UNCHANGED <<entry, pc, campaign, ostatki, catalog, watch_remnants, offer_ids,
                   fetched, stocks, prices, batches, calls, coroutines, reported>>

CallSellerCreateStocks ==
    /\ entry = "call" /\ call.fn = "seller.create_stocks"
    /\ Return(seller_create_stocks(call.args.watch_remnants, call.args.offer_ids))

CallMarketCreateStocks ==
    /\ entry = "call" /\ call.fn = "market.create_stocks"
    /\ Return(market_create_stocks(call.args.watch_remnants, call.args.offer_ids,
                                call.args.warehouse_id, call.args.date))

CallSellerCreatePrices ==
    /\ entry = "call" /\ call.fn = "seller.create_prices"
    /\ Return(seller_create_prices(call.args.watch_remnants, call.args.offer_ids))

CallMarketCreatePrices ==
    /\ entry = "call" /\ call.fn = "market.create_prices"
    /\ Return(market_create_prices(call.args.watch_remnants, call.args.offer_ids))

CallDivide ==
    /\ entry = "call" /\ call.fn = "seller.divide"
    /\ Return(divide(call.args.lst, call.args.n))

CallPriceConversion ==
    /\ entry = "call" /\ call.fn = "seller.price_conversion"
    /\ Return(price_conversion(call.args.price))

FnNext ==
    \/ CallSellerCreateStocks
    \/ CallMarketCreateStocks
    \/ CallSellerCreatePrices
    \/ CallMarketCreatePrices
    \/ CallDivide
    \/ CallPriceConversion

FnSpec == FnInit /\ [][FnNext]_vars

-----------------------------------------------------------------------------
(* seller.get_offer_ids and market.get_offer_ids, page by page *)

\* a call of get_offer_ids about to run: the locals of its loop, and where it is
\* ("request": about to call get_product_list; "response": the result is back)
Paging(fn, listing) ==
    [fn |-> fn, args |-> [listing |-> listing], returned |-> FALSE, out |-> <<>>,
     at |-> "request", cursor |-> <<>>, product_list |-> <<>>, response |-> <<>>]

\* how many items of listing precede the page asked for: none for the cursor "",
\* else those up to the item the cursor names
Served(listing, cursor) ==
    IF cursor = <<>> THEN 0
    ELSE CHOOSE i \in 1..Len(listing) : listing[i] = cursor

\* the ids of the page after cursor, of at most limit items
PageOf(listing, cursor, limit) ==
    SubSeq(listing, Served(listing, cursor) + 1,
           Min(Served(listing, cursor) + Min(limit, MaxPage), Len(listing)))

\* the "result" of Ozon's /v2/product/list for last_id: the next items, the number
\* of items of the catalog, and the id of the last item served
OzonProductList(listing, last_id) ==
    LET page == PageOf(listing, last_id, 1000)
    IN  [items |-> [k \in 1..Len(page) |-> [offer_id |-> page[k]]],
         total |-> Len(listing),
         last_id |-> IF page = <<>> THEN last_id ELSE page[Len(page)]]

\* the "result" of Yandex's offer-mapping-entries for page_token: the next entries,
\* and a nextPageToken that is empty when no entry is left after them
YandexProductList(listing, page_token) ==
    LET page == PageOf(listing, page_token, 200)
    IN  [offerMappingEntries |-> [k \in 1..Len(page) |-> [offer |-> [shopSku |-> page[k]]]],
         paging |-> [nextPageToken |->
                        IF Served(listing, page_token) + Len(page) < Len(listing)
                        THEN page[Len(page)] ELSE <<>>]]

\* if total == len(product_list): break
SellerLoopEnds(total, product_list) == total = Len(product_list)

\* if not page: break
MarketLoopEnds(page) == page = <<>>

PagingInit ==
    /\ entry = "call"
    /\ pc = "DONE"
    /\ campaign = "OZON"
    /\ ostatki = <<>>
    /\ catalog \in { c \in SeqsUpTo(OfferIds, MaxOffers) : NoDuplicates(c) }
    /\ watch_remnants = <<>>
    /\ offer_ids = <<>>
    /\ fetched = <<>>
    /\ stocks = <<>>
    /\ prices = <<>>
    /\ batches = <<>>
    /\ calls = <<>>
    /\ coroutines = 0
    /\ reported = ""
    /\ call \in { Paging(fn, catalog) : fn \in { "seller.get_offer_ids", "market.get_offer_ids" } }

OnlyCall == UNCHANGED <<entry, pc, campaign, ostatki, catalog, watch_remnants, offer_ids,
                        fetched, stocks, prices, batches, calls, coroutines, reported>>

\* some_prod = get_product_list(last_id, ...): the request is answered from the
\* catalog as it is now, or raises out of get_offer_ids
SellerRequestPage ==
    /\ entry = "call" /\ call.fn = "seller.get_offer_ids"
    /\ ~call.returned /\ call.at = "request"
    /\ \E outcome \in Outcomes :
          call' = IF outcome = "ok"
                  THEN [call EXCEPT !.at = "response",
                                    !.response = OzonProductList(catalog, call.cursor)]
                  ELSE [call EXCEPT !.returned = TRUE,
                                    !.out = [raised |-> outcome, offer_ids |-> <<>>]]
    /\ OnlyCall

\* the rest of the loop body, and after a break the second loop and the return
SellerTakePage ==
    /\ entry = "call" /\ call.fn = "seller.get_offer_ids"
    /\ ~call.returned /\ call.at = "response"
    /\ LET some_prod == call.response
           product_list == call.product_list \o some_prod.items
       IN  call' = IF SellerLoopEnds(some_prod.total, product_list)
                   THEN [call EXCEPT
                           !.returned = TRUE, !.product_list = product_list,
                           !.cursor = some_prod.last_id, !.response = <<>>,
                           !.out = [raised |-> "",
                                    offer_ids |-> [k \in 1..Len(product_list) |->
                                                      product_list[k].offer_id]]]
                   ELSE [call EXCEPT
                           !.at = "request", !.product_list = product_list,
                           !.cursor = some_prod.last_id, !.response = <<>>]
    /\ OnlyCall

\* some_prod = get_product_list(page, ...) of market.py
MarketRequestPage ==
    /\ entry = "call" /\ call.fn = "market.get_offer_ids"
    /\ ~call.returned /\ call.at = "request"
    /\ \E outcome \in Outcomes :
          call' = IF outcome = "ok"
                  THEN [call EXCEPT !.at = "response",
                                    !.response = YandexProductList(catalog, call.cursor)]
                  ELSE [call EXCEPT !.returned = TRUE,
                                    !.out = [raised |-> outcome, offer_ids |-> <<>>]]
    /\ OnlyCall

\* the rest of market.py's loop body, and after a break the second loop and the return
MarketTakePage ==
    /\ entry = "call" /\ call.fn = "market.get_offer_ids"
    /\ ~call.returned /\ call.at = "response"
    /\ LET some_prod == call.response
           product_list == call.product_list \o some_prod.offerMappingEntries
           page == some_prod.paging.nextPageToken
       IN  call' = IF MarketLoopEnds(page)
                   THEN [call EXCEPT
                           !.returned = TRUE, !.product_list = product_list,
                           !.cursor = page, !.response = <<>>,
                           !.out = [raised |-> "",
                                    offer_ids |-> [k \in 1..Len(product_list) |->
                                                      product_list[k].offer.shopSku]]]
                   ELSE [call EXCEPT
                           !.at = "request", !.product_list = product_list,
                           !.cursor = page, !.response = <<>>]
    /\ OnlyCall

\* between two requests the seller takes an offer out of the catalog (any but the
\* one the cursor names)
CatalogLosesOffer ==
    /\ entry = "call" /\ call.fn \in { "seller.get_offer_ids", "market.get_offer_ids" }
    /\ ~call.returned /\ call.at = "request"
    /\ Len(call.args.listing) - Len(catalog) < MaxChanges
    /\ \E i \in 1..Len(catalog) :
          /\ catalog[i] # call.cursor
          /\ catalog' = SubSeq(catalog, 1, i - 1) \o SubSeq(catalog, i + 1, Len(catalog))
    /\ UNCHANGED <<entry, pc, campaign, ostatki, watch_remnants, offer_ids, fetched,
                   stocks, prices, batches, calls, coroutines, reported, call>>

PagingNext ==
    \/ SellerRequestPage
    \/ SellerTakePage
    \/ MarketRequestPage
    \/ MarketTakePage
    \/ CatalogLosesOffer

\* get_offer_ids runs on and the marketplace answers every request; nothing
\* obliges the catalog to change
PagingSpec ==
    /\ PagingInit /\ [][PagingNext]_vars
    /\ WF_vars(SellerRequestPage) /\ WF_vars(SellerTakePage)
    /\ WF_vars(MarketRequestPage) /\ WF_vars(MarketTakePage)

-----------------------------------------------------------------------------
(* Reading the updates and the calls *)

StockId(u) == IF "offer_id" \in DOMAIN u THEN u.offer_id ELSE u.sku

StockQuantity(u) == IF "stock" \in DOMAIN u THEN u.stock ELSE u.items[1].count

PriceId(u) == IF "offer_id" \in DOMAIN u THEN u.offer_id ELSE u.id

Returned(fns) == call.fn \in fns /\ call.returned /\ call.out.raised = ""

Raised(fns) == call.fn \in fns /\ call.returned /\ call.out.raised # ""

CreateStocks == { "seller.create_stocks", "market.create_stocks" }

CreatePrices == { "seller.create_prices", "market.create_prices" }

Occurrences(lst, Id(_), id) == Cardinality({ i \in 1..Len(lst) : Id(lst[i]) = id })

\* the rows whose stringified code is in ids, as indices into rows, in order
CodeListed(rows, ids) ==
    LET Listed(i) == In(Str(rows[i].Kod), ids)
    IN  SelectSeq([i \in 1..Len(rows) |-> i], Listed)

\* of those, the rows that are the first of their code
FirstListed(rows, ids) ==
    LET First(i) == \A j \in 1..(i - 1) : Str(rows[j].Kod) # Str(rows[i].Kod)
    IN  SelectSeq(CodeListed(rows, ids), First)

\* the ids no row has as its code, in the order of ids
Unmatched(rows, ids) ==
    LET Free(id) == \A i \in 1..Len(rows) : Str(rows[i].Kod) # id
    IN  SelectSeq(ids, Free)

\* <<id, quantity>> of every update of stocks, in order
IdQuantities(lst) == [k \in 1..Len(lst) |-> <<StockId(lst[k]), StockQuantity(lst[k])>>]

\* what the claimed order gives for the rows at the indices at
ExpectedStocks(rows, ids, at) ==
    [k \in 1..Len(at) |-> <<Str(rows[at[k]].Kod), StockOf(rows[at[k]]).n>>]
    \o [k \in 1..Len(Unmatched(rows, ids)) |-> <<Unmatched(rows, ids)[k], 0>>]

-----------------------------------------------------------------------------
(* Claims about create_stocks, checked under FnSpec *)

\* C1: a create_stocks that returns gives exactly one update for every id of the
\* offer ids it was given, and no update for any other id
C1_Coverage ==
    Returned(CreateStocks) =>
        /\ \A i \in 1..Len(call.args.offer_ids) :
              Occurrences(call.out.stocks, StockId, call.args.offer_ids[i]) = 1
        /\ \A k \in 1..Len(call.out.stocks) :
              In(StockId(call.out.stocks[k]), call.args.offer_ids)

\* C1 witness: a matched id with its quantity, a fallback zero for another id, and a
\* row whose code is not listed
C1_Witness ==
    /\ Returned(CreateStocks)
    /\ Len(call.args.offer_ids) = 2
    /\ Len(call.out.stocks) = 2
    /\ StockQuantity(call.out.stocks[1]) = 100
    /\ StockId(call.out.stocks[2]) = <<"C">>
    /\ \E i \in 1..Len(call.args.watch_remnants) :
          ~In(Str(call.args.watch_remnants[i].Kod), call.args.offer_ids)

\* C2 as stated: the updates are those of all the rows whose code is in the offer
\* ids, in row order, then a zero for every unmatched id in the order of the ids
C2_AsStated ==
    Returned(CreateStocks) =>
        IdQuantities(call.out.stocks) =
            ExpectedStocks(call.args.watch_remnants, call.args.offer_ids,
                           CodeListed(call.args.watch_remnants, call.args.offer_ids))

\* C2 amended: the updates are those of the rows whose code is in the offer ids and
\* in no earlier row, in row order and each with the normalized quantity of its row,
\* then a zero for every unmatched id in the order of the ids
C2_Order ==
    Returned(CreateStocks) =>
        IdQuantities(call.out.stocks) =
            ExpectedStocks(call.args.watch_remnants, call.args.offer_ids,
                           FirstListed(call.args.watch_remnants, call.args.offer_ids))

\* C2 witness: rows [A: ">10", B: "1"] with offer ids [A, B, C] give A:100, B:0, C:0
C2_Witness ==
    /\ Returned(CreateStocks)
    /\ call.args.offer_ids = << <<"A">>, <<"B">>, <<"C">> >>
    /\ Len(call.args.watch_remnants) = 2
    /\ call.args.watch_remnants[1].Kod = PyStr(<<"A">>)
    /\ call.args.watch_remnants[1].Kolichestvo = PyStr(<<">", "1", "0">>)
    /\ call.args.watch_remnants[2].Kod = PyStr(<<"B">>)
    /\ call.args.watch_remnants[2].Kolichestvo = PyStr(<<"1">>)
    /\ IdQuantities(call.out.stocks) =
          << <<(<<"A">>), 100>>, <<(<<"B">>), 0>>, <<(<<"C">>), 0>> >>

\* the rows create_stocks computes a quantity for: the first listed row of each code
Normalized(c) == FirstListed(c.args.watch_remnants, c.args.offer_ids)

\* the quantity token of the k-th such row
Token(c, k) == c.args.watch_remnants[Normalized(c)[k]].Kolichestvo

\* a token the first two rules do not take
Plain(token) == Str(token) # <<">", "1", "0">> /\ Str(token) # <<"1">>

\* C7: in create_stocks a token whose string form is ">10" gives 100, one whose
\* string form is "1" gives 0 (the number 1 too), any other token gives its integer
\* value ("7" gives 7), and a token that is no integer ("abc") makes create_stocks
\* raise ValueError, which it does in no other case
C7_Normalize ==
    /\ Returned(CreateStocks) =>
          \A k \in 1..Len(Normalized(call)) :
             LET quantity == StockQuantity(call.out.stocks[k])
                 token == Token(call, k)
             IN  /\ token = PyStr(<<">", "1", "0">>) => quantity = 100
                 /\ token = PyStr(<<"1">>) => quantity = 0
                 /\ token = PyInt(1) => quantity = 0
                 /\ token = PyStr(<<"7">>) => quantity = 7
                 /\ Plain(token) => Int_(token).ok /\ quantity = Int_(token).n
    /\ Raised(CreateStocks) =>
          /\ call.out.raised = "ValueError"
          /\ \E k \in 1..Len(Normalized(call)) :
                Plain(Token(call, k)) /\ ~Int_(Token(call, k)).ok
    /\ call.fn \in CreateStocks /\ call.returned
       /\ (\E k \in 1..Len(Normalized(call)) : Token(call, k) = PyStr(<<"a", "b", "c">>))
          => call.out.raised = "ValueError"

\* C7 witness: ">10" has given 100 and then "abc" has made create_stocks raise
C7_Witness ==
    /\ Raised(CreateStocks)
    /\ Len(Normalized(call)) = 2
    /\ Token(call, 1) = PyStr(<<">", "1", "0">>)
    /\ Token(call, 2) = PyStr(<<"a", "b", "c">>)
    /\ IdQuantities(call.out.stocks) = << <<(<<"A">>), 100>> >>

\* C10 as stated: every update create_stocks returns has a quantity >= 0
C10_NonNegative ==
    Returned(CreateStocks) =>
        \A k \in 1..Len(call.out.stocks) : StockQuantity(call.out.stocks[k]) >= 0

-----------------------------------------------------------------------------
(* Claims about create_prices, checked under FnSpec *)

\* C6 as stated: create_prices returns exactly one price update for each offer id
\* that is the code of some row, none for an offer id that is the code of no row,
\* and none for a code that is not an offer id
C6_OnePricePerMatch ==
    Returned(CreatePrices) =>
        /\ \A i \in 1..Len(call.args.offer_ids) :
              Occurrences(call.out.prices, PriceId, call.args.offer_ids[i]) =
                  IF \E j \in 1..Len(call.args.watch_remnants) :
                        Str(call.args.watch_remnants[j].Kod) = call.args.offer_ids[i]
                  THEN 1 ELSE 0
        /\ \A k \in 1..Len(call.out.prices) :
              In(PriceId(call.out.prices[k]), call.args.offer_ids)

-----------------------------------------------------------------------------
(* Claims about divide, checked under FnSpec *)

RECURSIVE Concat(_)
Concat(chunks) == IF chunks = <<>> THEN <<>> ELSE Head(chunks) \o Concat(Tail(chunks))

\* C8: for n > 0, divide(lst, n) raises nothing, its chunks concatenated in order
\* are lst, every chunk but the last has n items and the last has 1..n, an empty
\* lst gives no chunk, and lst is left as it was
C8_Partition ==
    call.fn = "seller.divide" /\ call.returned /\ call.args.n > 0 =>
        LET chunks == call.out.chunks
        IN  /\ call.out.raised = ""
            /\ Concat(chunks) = call.args.lst
            /\ \A k \in 1..(Len(chunks) - 1) : Len(chunks[k]) = call.args.n
            /\ chunks # <<>> => Len(chunks[Len(chunks)]) \in 1..call.args.n
            /\ call.args.lst = <<>> => chunks = <<>>
            /\ call.out.lst = call.args.lst

\* C8 witness: three items by two give a full chunk and a shorter last one
C8_Witness ==
    /\ Returned({ "seller.divide" })
    /\ call.args.n = 2
    /\ Len(call.args.lst) = 3
    /\ Len(call.out.chunks) = 2
    /\ Len(call.out.chunks[2]) = 1

\* C9 as stated: for every n <= 0, divide(lst, n) raises instead of giving chunks
C9_RejectsNonPositive ==
    call.fn = "seller.divide" /\ call.returned /\ call.args.n <= 0 =>
        call.out.raised # ""

-----------------------------------------------------------------------------
(* Claims about price_conversion, checked under FnSpec *)

\* the positions of s before its first ".", all of them when it has none
IntegerPart(s) ==
    { i \in 1..Len(s) : \A j \in 1..i : s[j] # "." }

\* of those, the positions of the characters 0 to 9
DigitPositions(s) ==
    { i \in IntegerPart(s) : s[i] \in { "0", "1", "2", "3", "4", "5", "6", "7", "8", "9" } }

\* the k-th of a set of positions, in increasing order
Nth(positions, k) ==
    CHOOSE i \in positions : Cardinality({ j \in positions : j <= i }) = k

\* C11: price_conversion of a string returns the digit characters, in their
\* order, of what precedes the first "." of the string (of all of it when it has
\* no "."), and nothing else; "5'990.00 rub." gives "5990" and "100.50" gives "100"
C11_PriceDigits ==
    Returned({ "seller.price_conversion" }) =>
        LET s == call.args.price.s
            value == call.out.value
        IN  /\ Len(value) = Cardinality(DigitPositions(s))
            /\ \A k \in 1..Len(value) : value[k] = s[Nth(DigitPositions(s), k)]
            /\ call.args.price = Tsena5990 => value = <<"5", "9", "9", "0">>
            /\ call.args.price = Tsena100 => value = <<"1", "0", "0">>

\* C11 witness: "5'990.00 rub." has given "5990"
C11_Witness ==
    /\ Returned({ "seller.price_conversion" })
    /\ call.args.price = Tsena5990
    /\ call.out.value = <<"5", "9", "9", "0">>

-----------------------------------------------------------------------------
(* Claims about get_offer_ids, checked under PagingSpec *)

\* C12 as stated: on both platforms get_offer_ids, paging through a finite catalog
\* whose listing comes to a page with nothing after it, at last stops requesting
\* pages and returns (or raises)
C12_Terminates == <>call.returned

\* what does hold of market.py: its get_offer_ids always comes to its end
MarketPagingEnds == <>(call.fn = "market.get_offer_ids" => call.returned)

\* what does hold of seller.py: its get_offer_ids comes to its end when the catalog
\* stays as it was at the first request
SellerPagingEndsUnchanged ==
    <>(call.fn = "seller.get_offer_ids" => call.returned \/ catalog # call.args.listing)

-----------------------------------------------------------------------------
(* Claims about seller.main and market.main, checked under Spec *)

\* the payloads of the calls of api for campaign c that succeeded, concatenated
RECURSIVE Pushed(_, _, _)
Pushed(log, api, c) ==
    IF log = <<>> THEN <<>>
    ELSE (IF log[1].api = api /\ log[1].campaign = c /\ log[1].outcome = "ok"
          THEN log[1].payload ELSE <<>>) \o Pushed(Tail(log), api, c)

\* the codes of the rows whose code is among ids, in row order
ListedCodes(rows, ids) ==
    [k \in 1..Len(CodeListed(rows, ids)) |-> Str(rows[CodeListed(rows, ids)[k]].Kod)]

PriceIds(lst) == [k \in 1..Len(lst) |-> PriceId(lst[k])]

\* C3 as stated: when seller.main ends with no call failed, the price batches it
\* pushed hold one price update for every row whose code is in the offer ids
\* get_offer_ids returned
C3_PricesPushed ==
    entry = "seller.main" /\ pc = "DONE" =>
        PriceIds(Pushed(calls, "update_price", "OZON")) = ListedCodes(watch_remnants, fetched)

\* C4 as stated: when market.main ends with no call failed, the price updates of
\* the matched rows have been pushed through update_price for FBS and for DBS
C4_PricesPushed ==
    entry = "market.main" /\ pc = "DONE" =>
        \A c \in { "FBS", "DBS" } :
            PriceIds(Pushed(calls, "update_price", c)) = ListedCodes(watch_remnants, catalog)

IsPrefix(s, t) == Len(s) <= Len(t) /\ SubSeq(t, 1, Len(s)) = s

\* a listing or push call has failed
Failed == \E i \in 1..Len(calls) : calls[i].outcome # "ok"

\* C5: a listing or push call that fails is the last call of the run, main's
\* except clause for its exception has printed and main has ended, and the calls
\* made before it, the batches pushed among them, are never taken back
C5_Abort ==
    /\ [](\A i \in 1..Len(calls) :
             calls[i].outcome # "ok" =>
                 /\ i = Len(calls)
                 /\ pc = "CAUGHT"
                 /\ reported = Handler(calls[i].outcome))
    /\ [][IsPrefix(calls, calls') /\ (Failed => calls' = calls)]_vars

\* C5 witness: seller.main has pushed a first batch of stocks, the push of the
\* second batch has failed, and main has ended in its except clause
C5_Witness ==
    /\ entry = "seller.main" /\ pc = "CAUGHT"
    /\ Len(calls) = 3
    /\ calls[2].api = "update_stocks" /\ calls[2].outcome = "ok"
    /\ calls[3].api = "update_stocks" /\ calls[3].outcome = "ConnectionError"
    /\ reported = "connection"

====
